---- MODULE Spec2Model ----
(***************************************************************************)
(* Model of the stem420 backend: the generic worker pool                   *)
(* (backend/stem420/manager.py), the job lifecycle state and the pipeline  *)
(* orchestrator (backend/stem420/run_job.py) and the batch entry point     *)
(* (backend/stem420/oneoff.py).                                            *)
(***************************************************************************)
EXTENDS Integers, Sequences, FiniteSets, TLC

\* Largest pool size (the num argument of Manager.__init__) explored.
MaxNum == 2
\* Number of requests: threads that each call Manager.run once, and inputs of
\* oneoff.main.
MaxCalls == 2
\* Longest string explored when a function is applied to strings; a locator is
\* such a string, or the scheme followed by such a string.
MaxLen == 5
\* Largest number of track directories inside a model directory.
MaxTracks == 2

VARIABLES
    num,              \* Manager.num
    ctor,             \* position of Manager.__init__: [pc, i, err]
    init_lock,        \* Manager.init_lock: 0 when free, else the holding worker
    response_queues,  \* Manager.response_queues, a Queue(num)
    request_queue,    \* Manager.request_queue, a Queue(num)
    slotq,            \* contents of each Queue(1) created at manager.py:29
    worker,           \* per init_runner thread: [pc, request, register, response]
    fcalls,           \* per worker: number of times it invoked self.f()
    run,              \* per Manager.run call: [pc, register, response, ok]
    handled,          \* per request: number of times runner(request) was invoked
    houtcome,         \* per request: what runner(request) did ("none" before)
    closer,           \* position of Manager.close: [pc, i]
    logs,             \* _STATE.logs
    started_jobs,     \* _STATE.started_jobs
    finished_jobs,    \* _STATE.finished_jobs
    pipe,             \* per _process_request run: [pc, raised, finished]
    main,             \* position of oneoff.main: [pc, i, n]
    stagelog,         \* whether logs keeps the entries the stages log
    snapshot,         \* the dict the last _STATE.state() call returned
    gcs_path,         \* argument of a _parse_gcs_path call (a sequence of characters)
    parsed,           \* what that call did: [kind, bucket_name, blob_path]
    output_dir,       \* the directory _run_demucs flattens: [dirs, files]
    original,         \* the model directories of output_dir when demucs returned
    flat              \* position of the flattening loops (run_job.py:224-235)

poolVars == <<num, ctor, init_lock, response_queues, request_queue, slotq, worker,
              fcalls, run, handled, houtcome, closer>>
parseVars == <<gcs_path, parsed>>
flattenVars == <<output_dir, original, flat>>
fnVars == <<parseVars, flattenVars>>
jobVars == <<logs, started_jobs, finished_jobs, pipe, main, stagelog, snapshot, fnVars>>
vars == <<poolVars, jobVars>>

Workers == 1..num
Slots == 1..num
Calls == 1..MaxCalls

\* Python's None, for worker ids, slot ids and request ids (all of them >= 1).
None == 0

\* Items travelling through response_queues.
ReportNone == [tag |-> "none", id |-> None]
ReportErr(w) == [tag |-> "err", id |-> w]
SlotRef(s) == [tag |-> "slot", id |-> s]

\* Items travelling through request_queue.
Sentinel == [request |-> None, register |-> None]
Item(req, reg) == [request |-> req, register |-> reg]

\* Values a handler produces for a request, and the queue.Full error.
NoValue == [kind |-> "none", req |-> None]
ResponseOf(req) == [kind |-> "response", req |-> req]
ErrorOf(req) == [kind |-> "exception", req |-> req]
QueueFull == [kind |-> "queue.Full", req |-> None]

IdleWorker(pc) == [pc |-> pc, request |-> None, register |-> None, response |-> NoValue]

\* Log entries: the message (its fixed leading text) and the run that logged it.
Entry(msg, j) == [msg |-> msg, job |-> j]

\* A run: its position, whether an exception was raised inside its try block,
\* and how many times it called _STATE.mark_finished().
IdlePipe == [pc |-> "idle", raised |-> FALSE, finished |-> 0]

\* The entries _process_request itself logs (run_job.py:292, 319, 320, 322).
ProcessMsgs == {"run_job.process.start", "run_job.process.success",
                "run_job.process.error", "Traceback"}
\* The entries the stages log (run_job.py:80, 90, 99, 107, 113, 117, 124, 132,
\* 166, 193, 204, 213, 222, 256, 269).
StageMsgs == {"run_job.gcs.auth.anonymous", "Invalid GCS path",
              "run_job.download.start", "run_job.download.done",
              "run_job.decode.start", "run_job.decode.failed", "run_job.decode.done",
              "run_job.demucs.start", "run_job.demucs.failed", "run_job.demucs.done",
              "run_job.align.failed", "run_job.encode_mp3.failed",
              "run_job.upload.start", "run_job.upload.done"}

\* Log with a fault: the new entries are put in front of the list.
Log_Prepend(msgs, j) ==
    logs' = SelectSeq([k \in 1..Len(msgs) |-> Entry(msgs[k], j)],
                      LAMBDA e : stagelog \/ e.msg \in ProcessMsgs) \o logs

\* _RunJobState.log (run_job.py:40-43), for the calls msgs[1], msgs[2], ... of
\* run j in this order.  The variable logs is _STATE.logs, restricted to the
\* entries of ProcessMsgs when stagelog is FALSE.
Log(msgs, j) ==
    logs' = logs \o SelectSeq([k \in 1..Len(msgs) |-> Entry(msgs[k], j)],
                              LAMBDA e : stagelog \/ e.msg \in ProcessMsgs)

\* _RunJobState.__init__ (run_job.py:34-38), and no _process_request running.
InitState ==
    /\ logs = <<>>
    /\ started_jobs = 0
    /\ finished_jobs = 0
    /\ pipe = [j \in Calls |-> IdlePipe]
    /\ snapshot = [logs |-> <<>>, started_jobs |-> 0, finished_jobs |-> 0]

\* No _parse_gcs_path call is being looked at.
NotParsed == [kind |-> "none", bucket_name |-> <<>>, blob_path |-> <<>>]
InitNoParse ==
    /\ gcs_path = <<>>
    /\ parsed = NotParsed

\* A directory without entries, and no flattening being looked at.
NoDirs == [d \in {} |-> {}]
FlatAt(pc) == [pc |-> pc, model_dirs |-> {}, model_dir |-> "", tracks |-> {},
               track_dir |-> 0, stems |-> {}]
InitNoFlatten ==
    /\ output_dir = [dirs |-> NoDirs, files |-> {}]
    /\ original = NoDirs
    /\ flat = FlatAt("off")

InitFn ==
    /\ InitNoParse
    /\ InitNoFlatten

InitPool(nums) ==
    /\ num \in nums
    /\ ctor = [pc |-> "spawn", i |-> 0, err |-> None]
    /\ init_lock = None
    /\ response_queues = <<>>
    /\ request_queue = <<>>
    /\ slotq = [s \in 1..num |-> <<>>]
    /\ worker = [w \in 1..num |-> IdleWorker("unstarted")]
    /\ fcalls = [w \in 1..num |-> 0]
    /\ run = [c \in Calls |-> [pc |-> "get", register |-> None, response |-> NoValue, ok |-> TRUE]]
    /\ handled = [c \in Calls |-> 0]
    /\ houtcome = [c \in Calls |-> "none"]
    /\ closer = [pc |-> "idle", i |-> 0]

\* The generic pool: Manager(f, num) for a factory and handlers that may raise.
Init ==
    /\ InitPool(1..MaxNum)
    /\ InitState
    /\ InitFn
    /\ main = [pc |-> "off", i |-> 0, n |-> 0]
    /\ stagelog = TRUE

----------------------------------------------------------------------------
\* Manager.__init__

\* manager.py:22-23: start the next init_runner thread.
CtorSpawn ==
    /\ ctor.pc = "spawn"
    /\ worker' = [worker EXCEPT ![ctor.i + 1].pc = "lock"]
    /\ ctor' = IF ctor.i + 1 = num
               THEN [ctor EXCEPT !.pc = "collect", !.i = 0]
               ELSE [ctor EXCEPT !.i = ctor.i + 1]
    /\ UNCHANGED <<jobVars, num, init_lock, response_queues, request_queue, slotq, fcalls,
                   run, handled, houtcome, closer>>

\* CtorCollect with a fault: an error report is counted like a success.
CtorCollect_IgnoreErrors ==
    /\ ctor.pc = "collect"
    /\ response_queues # <<>>
    /\ response_queues' = Tail(response_queues)
    /\ ctor' = IF ctor.i + 1 = num
               THEN [ctor EXCEPT !.pc = "fill", !.i = 0]
               ELSE [ctor EXCEPT !.i = ctor.i + 1]
    /\ UNCHANGED <<jobVars, num, init_lock, request_queue, slotq, worker, fcalls,
                   run, handled, houtcome, closer>>

\* manager.py:24-27: take one report; raise it if it is an error.
CtorCollect ==
    /\ ctor.pc = "collect"
    /\ response_queues # <<>>
    /\ response_queues' = Tail(response_queues)
    /\ ctor' = IF Head(response_queues).tag = "err"
               THEN [ctor EXCEPT !.pc = "raised", !.err = Head(response_queues).id]
               ELSE IF ctor.i + 1 = num
                    THEN [ctor EXCEPT !.pc = "fill", !.i = 0]
                    ELSE [ctor EXCEPT !.i = ctor.i + 1]
    /\ UNCHANGED <<jobVars, num, init_lock, request_queue, slotq, worker, fcalls,
                   run, handled, houtcome, closer>>

\* manager.py:28-29: put_nowait a fresh Queue(1); queue.Full if there is no room.
CtorFill ==
    /\ ctor.pc = "fill"
    /\ IF Len(response_queues) < num
       THEN /\ response_queues' = Append(response_queues, SlotRef(ctor.i + 1))
            /\ ctor' = IF ctor.i + 1 = num
                       THEN [ctor EXCEPT !.pc = "done", !.i = 0]
                       ELSE [ctor EXCEPT !.i = ctor.i + 1]
       ELSE /\ ctor' = [ctor EXCEPT !.pc = "raised_full"]
            /\ UNCHANGED response_queues
    /\ UNCHANGED <<jobVars, num, init_lock, request_queue, slotq, worker, fcalls,
                   run, handled, houtcome, closer>>

----------------------------------------------------------------------------
\* Manager.init_runner

\* AcquireInitLock with a fault: the factory is entered without waiting for the lock.
AcquireInitLock_NoLock(w) ==
    /\ worker[w].pc = "lock"
    /\ init_lock' = w
    /\ worker' = [worker EXCEPT ![w].pc = "factory"]
    /\ fcalls' = [fcalls EXCEPT ![w] = @ + 1]
    /\ UNCHANGED <<jobVars, num, ctor, response_queues, request_queue, slotq,
                   run, handled, houtcome, closer>>

\* manager.py:36: with self.init_lock (blocks while another worker holds it).
AcquireInitLock(w) ==
    /\ worker[w].pc = "lock"
    /\ init_lock = None
    /\ init_lock' = w
    /\ worker' = [worker EXCEPT ![w].pc = "factory"]
    /\ fcalls' = [fcalls EXCEPT ![w] = @ + 1]
    /\ UNCHANGED <<jobVars, num, ctor, response_queues, request_queue, slotq,
                   run, handled, houtcome, closer>>

\* manager.py:38, 42: self.f() returns a runner; the with block releases the lock.
FactoryReturn(w) ==
    /\ worker[w].pc = "factory"
    /\ init_lock' = None
    /\ worker' = [worker EXCEPT ![w].pc = "report"]
    /\ UNCHANGED <<jobVars, num, ctor, response_queues, request_queue, slotq, fcalls,
                   run, handled, houtcome, closer>>

\* manager.py:38-39: self.f() raises; the handler runs inside the with block.
FactoryRaise(w) ==
    /\ worker[w].pc = "factory"
    /\ worker' = [worker EXCEPT ![w].pc = "report_err"]
    /\ UNCHANGED <<jobVars, num, ctor, init_lock, response_queues, request_queue, slotq,
                   fcalls, run, handled, houtcome, closer>>

\* manager.py:40-41: put(e) (blocking), then return, which releases the lock.
ReportFailure(w) ==
    /\ worker[w].pc = "report_err"
    /\ Len(response_queues) < num
    /\ response_queues' = Append(response_queues, ReportErr(w))
    /\ init_lock' = None
    /\ worker' = [worker EXCEPT ![w].pc = "returned"]
    /\ UNCHANGED <<jobVars, num, ctor, request_queue, slotq, fcalls,
                   run, handled, houtcome, closer>>

\* manager.py:42: put(None) (blocking).
ReportSuccess(w) ==
    /\ worker[w].pc = "report"
    /\ Len(response_queues) < num
    /\ response_queues' = Append(response_queues, ReportNone)
    /\ worker' = [worker EXCEPT ![w].pc = "loop"]
    /\ UNCHANGED <<jobVars, num, ctor, init_lock, request_queue, slotq, fcalls,
                   run, handled, houtcome, closer>>

\* Dequeue with a fault: the item is read and left in the queue.
Dequeue_Peek(w) ==
    /\ worker[w].pc = "loop"
    /\ request_queue # <<>>
    /\ LET item == Head(request_queue) IN
         IF item.register = None
         THEN /\ worker' = [worker EXCEPT ![w].pc = "exited"]
              /\ UNCHANGED handled
         ELSE /\ worker' = [worker EXCEPT ![w] = [pc |-> "handle",
                                request |-> item.request,
                                register |-> item.register,
                                response |-> NoValue]]
              /\ handled' = [handled EXCEPT ![item.request] = @ + 1]
    /\ UNCHANGED <<jobVars, num, ctor, init_lock, response_queues, request_queue, slotq,
                   fcalls, run, houtcome, closer>>

\* manager.py:44-47, 49: request_queue.get() (blocking); break on the sentinel,
\* otherwise call runner(request).
Dequeue(w) ==
    /\ worker[w].pc = "loop"
    /\ request_queue # <<>>
    /\ request_queue' = Tail(request_queue)
    /\ LET item == Head(request_queue) IN
         IF item.register = None
         THEN /\ worker' = [worker EXCEPT ![w].pc = "exited"]
              /\ UNCHANGED handled
         ELSE /\ worker' = [worker EXCEPT ![w] = [pc |-> "handle",
                                request |-> item.request,
                                register |-> item.register,
                                response |-> NoValue]]
              /\ handled' = [handled EXCEPT ![item.request] = @ + 1]
    /\ UNCHANGED <<jobVars, num, ctor, init_lock, response_queues, slotq, fcalls,
                   run, houtcome, closer>>

\* manager.py:49: runner(request) returns a response.
HandlerReturn(w) ==
    /\ worker[w].pc = "handle"
    /\ worker' = [worker EXCEPT ![w].pc = "put_ok",
                                ![w].response = ResponseOf(worker[w].request)]
    /\ houtcome' = [houtcome EXCEPT ![worker[w].request] = "response"]
    /\ UNCHANGED <<jobVars, num, ctor, init_lock, response_queues, request_queue, slotq,
                   fcalls, run, handled, closer>>

\* manager.py:49-50: runner(request) raises.
HandlerRaise(w) ==
    /\ worker[w].pc = "handle"
    /\ worker' = [worker EXCEPT ![w].pc = "put_err",
                                ![w].response = ErrorOf(worker[w].request)]
    /\ houtcome' = [houtcome EXCEPT ![worker[w].request] = "exception"]
    /\ UNCHANGED <<jobVars, num, ctor, init_lock, response_queues, request_queue, slotq,
                   fcalls, run, handled, closer>>

\* Deposit with a fault: break instead of continue after a handler error.
Deposit_BreakOnError(w) ==
    /\ worker[w].pc \in {"put_ok", "put_err"}
    /\ Len(slotq[worker[w].register]) < 1
    /\ slotq' = [slotq EXCEPT ![worker[w].register] =
                    Append(@, [response |-> worker[w].response,
                               ok |-> (worker[w].pc = "put_ok")])]
    /\ worker' = [worker EXCEPT ![w] =
                    IdleWorker(IF worker[w].pc = "put_err" THEN "exited" ELSE "loop")]
    /\ UNCHANGED <<jobVars, num, ctor, init_lock, response_queues, request_queue,
                   fcalls, run, handled, houtcome, closer>>

\* manager.py:51-53: register.put((e, False)); continue / register.put((response, True)).
Deposit(w) ==
    /\ worker[w].pc \in {"put_ok", "put_err"}
    /\ Len(slotq[worker[w].register]) < 1
    /\ slotq' = [slotq EXCEPT ![worker[w].register] =
                    Append(@, [response |-> worker[w].response,
                               ok |-> (worker[w].pc = "put_ok")])]
    /\ worker' = [worker EXCEPT ![w] = IdleWorker("loop")]
    /\ UNCHANGED <<jobVars, num, ctor, init_lock, response_queues, request_queue,
                   fcalls, run, handled, houtcome, closer>>

----------------------------------------------------------------------------
\* Manager.run, called with request = c by caller c once the constructor returned.

\* RunGet with a fault: the slot is read but left in the slot pool.
RunGet_Peek(c) ==
    /\ ctor.pc = "done"
    /\ run[c].pc = "get"
    /\ response_queues # <<>>
    /\ run' = [run EXCEPT ![c].pc = "put", ![c].register = Head(response_queues).id]
    /\ UNCHANGED <<jobVars, num, ctor, init_lock, response_queues, request_queue, slotq,
                   worker, fcalls, handled, houtcome, closer>>

\* manager.py:56: register = self.response_queues.get() (blocking).
RunGet(c) ==
    /\ ctor.pc = "done"
    /\ run[c].pc = "get"
    /\ response_queues # <<>>
    /\ response_queues' = Tail(response_queues)
    /\ run' = [run EXCEPT ![c].pc = "put", ![c].register = Head(response_queues).id]
    /\ UNCHANGED <<jobVars, num, ctor, init_lock, request_queue, slotq, worker, fcalls,
                   handled, houtcome, closer>>

\* manager.py:57: self.request_queue.put_nowait((request, register)); raises
\* queue.Full out of run when the queue holds num items.
RunPut(c) ==
    /\ run[c].pc = "put"
    /\ IF Len(request_queue) < num
       THEN /\ request_queue' = Append(request_queue, Item(c, run[c].register))
            /\ run' = [run EXCEPT ![c].pc = "wait"]
       ELSE /\ run' = [run EXCEPT ![c] = [pc |-> "raised", register |-> None,
                                          response |-> QueueFull, ok |-> FALSE]]
            /\ UNCHANGED request_queue
    /\ UNCHANGED <<jobVars, num, ctor, init_lock, response_queues, slotq, worker, fcalls,
                   handled, houtcome, closer>>

\* RunWait with a fault: the result is read from whichever slot holds one.
RunWait_AnySlot(c) ==
    /\ run[c].pc = "wait"
    /\ \E s \in Slots :
        /\ slotq[s] # <<>>
        /\ slotq' = [slotq EXCEPT ![s] = Tail(@)]
        /\ run' = [run EXCEPT ![c].pc = "giveback",
                              ![c].response = Head(slotq[s]).response,
                              ![c].ok = Head(slotq[s]).ok]
    /\ UNCHANGED <<jobVars, num, ctor, init_lock, response_queues, request_queue, worker,
                   fcalls, handled, houtcome, closer>>

\* manager.py:58: (response, is_successful) = register.get() (blocking).
RunWait(c) ==
    /\ run[c].pc = "wait"
    /\ slotq[run[c].register] # <<>>
    /\ slotq' = [slotq EXCEPT ![run[c].register] = Tail(@)]
    /\ run' = [run EXCEPT ![c].pc = "giveback",
                          ![c].response = Head(slotq[run[c].register]).response,
                          ![c].ok = Head(slotq[run[c].register]).ok]
    /\ UNCHANGED <<jobVars, num, ctor, init_lock, response_queues, request_queue, worker,
                   fcalls, handled, houtcome, closer>>

\* RunGiveBack with a fault: the slot is not put back into the slot pool.
RunGiveBack_KeepSlot(c) ==
    /\ run[c].pc = "giveback"
    /\ run' = [run EXCEPT ![c].pc = "finish", ![c].register = None]
    /\ UNCHANGED <<jobVars, num, ctor, init_lock, response_queues, request_queue, slotq,
                   worker, fcalls, handled, houtcome, closer>>

\* manager.py:59: self.response_queues.put_nowait(register).
RunGiveBack(c) ==
    /\ run[c].pc = "giveback"
    /\ IF Len(response_queues) < num
       THEN /\ response_queues' = Append(response_queues, SlotRef(run[c].register))
            /\ run' = [run EXCEPT ![c].pc = "finish", ![c].register = None]
       ELSE /\ run' = [run EXCEPT ![c] = [pc |-> "raised", register |-> None,
                                          response |-> QueueFull, ok |-> FALSE]]
            /\ UNCHANGED response_queues
    /\ UNCHANGED <<jobVars, num, ctor, init_lock, request_queue, slotq, worker, fcalls,
                   handled, houtcome, closer>>

\* manager.py:60-62: raise response / return response.
RunFinish(c) ==
    /\ run[c].pc = "finish"
    /\ run' = [run EXCEPT ![c].pc = IF run[c].ok THEN "returned" ELSE "raised"]
    /\ UNCHANGED <<jobVars, num, ctor, init_lock, response_queues, request_queue, slotq,
                   worker, fcalls, handled, houtcome, closer>>

----------------------------------------------------------------------------
\* Manager.close

\* manager.py:32-33: one put_nowait((None, None)) of the loop; queue.Full leaves close.
ClosePut ==
    /\ ctor.pc = "done"
    /\ closer.pc \in {"idle", "closing"}
    /\ IF Len(request_queue) < num
       THEN /\ request_queue' = Append(request_queue, Sentinel)
            /\ closer' = IF closer.i + 1 = num
                         THEN [pc |-> "closed", i |-> closer.i + 1]
                         ELSE [pc |-> "closing", i |-> closer.i + 1]
       ELSE /\ closer' = [closer EXCEPT !.pc = "raised"]
            /\ UNCHANGED request_queue
    /\ UNCHANGED <<jobVars, num, ctor, init_lock, response_queues, slotq, worker, fcalls,
                   run, handled, houtcome>>


----------------------------------------------------------------------------
\* _process_request, run j (run_job.py:291-324).  Each stage is one step that
\* appends the entries the stage logs, in the order of its _STATE.log calls.

StageOrder == <<"client", "fetch", "decode", "separate", "align", "metadata", "upload">>

\* StageEnds with a fault: the exception of a stage is swallowed and the run goes on.
StageEnds_Swallow(j, stage, msgs, raises, next) ==
    /\ pipe[j].pc = stage
    /\ Log(msgs, j)
    /\ pipe' = [pipe EXCEPT ![j].pc = next, ![j].raised = raises]
    /\ UNCHANGED <<poolVars, started_jobs, finished_jobs, main, stagelog, snapshot, fnVars>>

\* The stage at pipe[j].pc ends: its log entries are appended; it returns
\* (next = the following statement) or raises (next = the except clause).
StageEnds(j, stage, msgs, raises, next) ==
    /\ pipe[j].pc = stage
    /\ Log(msgs, j)
    /\ pipe' = [pipe EXCEPT ![j].pc = IF raises THEN "log_error" ELSE next,
                            ![j].raised = raises]
    /\ UNCHANGED <<poolVars, started_jobs, finished_jobs, main, stagelog, snapshot, fnVars>>

\* run_job.py:292-295.
ProcessStart(j) ==
    /\ pipe[j].pc = "start"
    /\ Log(<<"run_job.process.start">>, j)
    /\ pipe' = [pipe EXCEPT ![j].pc = "client"]
    /\ UNCHANGED <<poolVars, started_jobs, finished_jobs, main, stagelog, snapshot, fnVars>>

\* run_job.py:299, _make_storage_client: default credentials, or the anonymous
\* fallback (logged), or an error of the storage library.
MakeStorageClient(j) ==
    \/ StageEnds(j, "client", <<>>, FALSE, "fetch")
    \/ StageEnds(j, "client", <<"run_job.gcs.auth.anonymous">>, FALSE, "fetch")
    \/ StageEnds(j, "client", <<>>, TRUE, "fetch")

\* run_job.py:303, _download_mp3: the locator is invalid, or the download
\* fails, or it succeeds.
DownloadMp3(j) ==
    \/ StageEnds(j, "fetch", <<"Invalid GCS path">>, TRUE, "decode")
    \/ StageEnds(j, "fetch", <<"run_job.download.start">>, TRUE, "decode")
    \/ StageEnds(j, "fetch", <<"run_job.download.start", "run_job.download.done">>,
                 FALSE, "decode")

\* run_job.py:306-307, _decode_to_wav and _wav_info.
DecodeToWav(j) ==
    \/ StageEnds(j, "decode", <<"run_job.decode.start", "run_job.decode.failed">>,
                 TRUE, "separate")
    \/ StageEnds(j, "decode", <<"run_job.decode.start", "run_job.decode.done">>,
                 TRUE, "separate")
    \/ StageEnds(j, "decode", <<"run_job.decode.start", "run_job.decode.done">>,
                 FALSE, "separate")

\* run_job.py:310, _run_demucs: the tool fails, or flattening fails, or both succeed.
RunDemucs(j) ==
    \/ StageEnds(j, "separate", <<"run_job.demucs.start", "run_job.demucs.failed">>,
                 TRUE, "align")
    \/ StageEnds(j, "separate", <<"run_job.demucs.start", "run_job.demucs.done">>,
                 TRUE, "align")
    \/ StageEnds(j, "separate", <<"run_job.demucs.start", "run_job.demucs.done">>,
                 FALSE, "align")

\* run_job.py:311, _align_and_encode_stems_to_mp3.
AlignAndEncode(j) ==
    \/ StageEnds(j, "align", <<"run_job.align.failed">>, TRUE, "metadata")
    \/ StageEnds(j, "align", <<"run_job.encode_mp3.failed">>, TRUE, "metadata")
    \/ StageEnds(j, "align", <<>>, FALSE, "metadata")

\* run_job.py:313-314, _write_metadata.
WriteMetadata(j) ==
    \/ StageEnds(j, "metadata", <<>>, TRUE, "upload")
    \/ StageEnds(j, "metadata", <<>>, FALSE, "upload")

\* run_job.py:316, _upload_directory; the else clause follows a normal end.
UploadDirectory(j) ==
    \/ StageEnds(j, "upload", <<"Invalid GCS path">>, TRUE, "log_success")
    \/ StageEnds(j, "upload", <<"run_job.upload.start">>, TRUE, "log_success")
    \/ StageEnds(j, "upload", <<"run_job.upload.start", "run_job.upload.done">>,
                 FALSE, "log_success")

\* run_job.py:318-319.
LogError(j) ==
    /\ pipe[j].pc = "log_error"
    /\ Log(<<"run_job.process.error">>, j)
    /\ pipe' = [pipe EXCEPT ![j].pc = "log_traceback"]
    /\ UNCHANGED <<poolVars, started_jobs, finished_jobs, main, stagelog, snapshot, fnVars>>

\* run_job.py:320.
LogTraceback(j) ==
    /\ pipe[j].pc = "log_traceback"
    /\ Log(<<"Traceback">>, j)
    /\ pipe' = [pipe EXCEPT ![j].pc = "mark_finished"]
    /\ UNCHANGED <<poolVars, started_jobs, finished_jobs, main, stagelog, snapshot, fnVars>>

\* LogSuccess with a fault: the job goes on to be counted without its
\* run_job.process.success entry.
LogSuccess_Skip(j) ==
    /\ pipe[j].pc = "log_success"
    /\ pipe' = [pipe EXCEPT ![j].pc = "mark_finished"]
    /\ UNCHANGED <<poolVars, logs, started_jobs, finished_jobs, main, stagelog, snapshot,
                   fnVars>>

\* run_job.py:321-322.
LogSuccess(j) ==
    /\ pipe[j].pc = "log_success"
    /\ Log(<<"run_job.process.success">>, j)
    /\ pipe' = [pipe EXCEPT ![j].pc = "mark_finished"]
    /\ UNCHANGED <<poolVars, started_jobs, finished_jobs, main, stagelog, snapshot, fnVars>>

\* run_job.py:323-324 and 49-51: the finally clause, _STATE.mark_finished().
MarkFinished(j) ==
    /\ pipe[j].pc = "mark_finished"
    /\ finished_jobs' = finished_jobs + 1
    /\ pipe' = [pipe EXCEPT ![j].pc = "done", ![j].finished = @ + 1]
    /\ UNCHANGED <<poolVars, logs, started_jobs, main, stagelog, snapshot, fnVars>>

PipeStep(j) ==
    \/ ProcessStart(j)
    \/ MakeStorageClient(j)
    \/ DownloadMp3(j)
    \/ DecodeToWav(j)
    \/ RunDemucs(j)
    \/ AlignAndEncode(j)
    \/ WriteMetadata(j)
    \/ UploadDirectory(j)
    \/ LogError(j)
    \/ LogTraceback(j)
    \/ LogSuccess(j)
    \/ MarkFinished(j)

----------------------------------------------------------------------------
\* run_job (run_job.py:327-331), the handler of the server's pool.

\* The acknowledgment: Response has no fields (run_job.py:26-27).
EmptyResponse == [kind |-> "response", req |-> None]

\* RunJobMarkStarted with a fault: the job is launched without being counted.
RunJobMarkStarted_Skip(w) ==
    /\ worker[w].pc = "handle"
    /\ worker' = [worker EXCEPT ![w].pc = "spawn"]
    /\ UNCHANGED <<num, ctor, init_lock, response_queues, request_queue, slotq,
                   fcalls, run, handled, houtcome, closer,
                   logs, started_jobs, finished_jobs, pipe, main, stagelog, snapshot, fnVars>>

\* run_job.py:328 and 45-47: _STATE.mark_started().
RunJobMarkStarted(w) ==
    /\ worker[w].pc = "handle"
    /\ started_jobs' = started_jobs + 1
    /\ worker' = [worker EXCEPT ![w].pc = "spawn"]
    /\ UNCHANGED <<num, ctor, init_lock, response_queues, request_queue, slotq,
                   fcalls, run, handled, houtcome, closer,
                   logs, finished_jobs, pipe, main, stagelog, snapshot, fnVars>>

\* RunJobSpawn with a fault: run_job returns only when the pipeline has ended.
RunJobSpawn_Join(w) ==
    /\ worker[w].pc = "spawn"
    /\ \/ /\ pipe[worker[w].request].pc = "idle"
          /\ pipe' = [pipe EXCEPT ![worker[w].request].pc = "start"]
          /\ UNCHANGED <<worker, houtcome>>
       \/ /\ pipe[worker[w].request].pc = "done"
          /\ worker' = [worker EXCEPT ![w].pc = "put_ok", ![w].response = EmptyResponse]
          /\ houtcome' = [houtcome EXCEPT ![worker[w].request] = "response"]
          /\ UNCHANGED pipe
    /\ UNCHANGED <<num, ctor, init_lock, response_queues, request_queue, slotq,
                   fcalls, run, handled, closer,
                   logs, started_jobs, finished_jobs, main, stagelog, snapshot, fnVars>>

\* run_job.py:329-331: start the detached thread and return Response().
RunJobSpawn(w) ==
    /\ worker[w].pc = "spawn"
    /\ pipe' = [pipe EXCEPT ![worker[w].request].pc = "start"]
    /\ worker' = [worker EXCEPT ![w].pc = "put_ok", ![w].response = EmptyResponse]
    /\ houtcome' = [houtcome EXCEPT ![worker[w].request] = "response"]
    /\ UNCHANGED <<num, ctor, init_lock, response_queues, request_queue, slotq,
                   fcalls, run, handled, closer,
                   logs, started_jobs, finished_jobs, main, stagelog, snapshot, fnVars>>

----------------------------------------------------------------------------
\* oneoff.main (oneoff.py:38-52): main.n inputs lack outputs.

\* oneoff.py:40-42: the storage client and the listing; either may raise.
OneoffList ==
    /\ main.pc = "list"
    /\ \/ main' = [main EXCEPT !.pc = "loop"] /\ UNCHANGED logs
       \/ /\ main' = [main EXCEPT !.pc = "loop"]
          /\ Log(<<"run_job.gcs.auth.anonymous">>, None)
       \/ main' = [main EXCEPT !.pc = "raised"] /\ UNCHANGED logs
    /\ UNCHANGED <<poolVars, started_jobs, finished_jobs, pipe, stagelog, snapshot, fnVars>>

\* oneoff.py:44-50: run_job._process_request(request) for the next input.
OneoffCall ==
    /\ main.pc = "loop"
    /\ main.i < main.n
    /\ pipe' = [pipe EXCEPT ![main.i + 1].pc = "start"]
    /\ main' = [main EXCEPT !.pc = "call"]
    /\ UNCHANGED <<poolVars, logs, started_jobs, finished_jobs, stagelog, snapshot, fnVars>>

\* oneoff.py:50: _process_request returned.
OneoffReturn ==
    /\ main.pc = "call"
    /\ pipe[main.i + 1].pc = "done"
    /\ main' = [main EXCEPT !.pc = "loop", !.i = main.i + 1]
    /\ UNCHANGED <<poolVars, logs, started_jobs, finished_jobs, pipe, stagelog, snapshot, fnVars>>

\* oneoff.py:52.
OneoffComplete ==
    /\ main.pc = "loop"
    /\ main.i = main.n
    /\ main' = [main EXCEPT !.pc = "complete"]
    /\ UNCHANGED <<poolVars, logs, started_jobs, finished_jobs, pipe, stagelog, snapshot, fnVars>>

----------------------------------------------------------------------------
\* The three programs.

RunStep(c) ==
    \/ RunGet(c)
    \/ RunPut(c)
    \/ RunWait(c)
    \/ RunGiveBack(c)
    \/ RunFinish(c)

\* init_runner with a factory and a handler that may raise.
WorkerStep(w) ==
    \/ AcquireInitLock(w)
    \/ FactoryReturn(w)
    \/ FactoryRaise(w)
    \/ ReportFailure(w)
    \/ ReportSuccess(w)
    \/ Dequeue(w)
    \/ HandlerReturn(w)
    \/ HandlerRaise(w)
    \/ Deposit(w)

\* The generic pool.
Next ==
    \/ CtorSpawn
    \/ CtorCollect
    \/ CtorFill
    \/ \E w \in Workers : WorkerStep(w)
    \/ \E c \in Calls : RunStep(c)
    \/ ClosePut

Spec == Init /\ [][Next]_vars

\* The server (server.py:14, 33-36, 85-95): a pool of NUM_WORKERS workers whose
\* factory returns run_job, and the detached _process_request threads.
NUM_WORKERS == 1

\* ServerWorkerStep with a fault: the handler may raise a failure to its caller.
ServerWorkerStep_Propagate(w) ==
    \/ AcquireInitLock(w)
    \/ FactoryReturn(w)
    \/ ReportSuccess(w)
    \/ Dequeue(w)
    \/ RunJobMarkStarted(w)
    \/ RunJobSpawn(w)
    \/ HandlerRaise(w)
    \/ Deposit(w)

\* init_runner with the factory lambda: run_job.run_job (server.py:34).
ServerWorkerStep(w) ==
    \/ AcquireInitLock(w)
    \/ FactoryReturn(w)
    \/ ReportSuccess(w)
    \/ Dequeue(w)
    \/ RunJobMarkStarted(w)
    \/ RunJobSpawn(w)
    \/ Deposit(w)

InitServer ==
    /\ InitPool({NUM_WORKERS})
    /\ InitState
    /\ InitFn
    /\ main = [pc |-> "off", i |-> 0, n |-> 0]
    /\ stagelog = FALSE

NextServer ==
    \/ CtorSpawn
    \/ CtorCollect
    \/ CtorFill
    \/ \E w \in Workers : ServerWorkerStep(w)
    \/ \E c \in Calls : RunStep(c)
    \/ \E j \in Calls : PipeStep(j)

SpecServer == InitServer /\ [][NextServer]_vars

\* The batch program: oneoff.main in a process of its own.
InitOneoff ==
    /\ InitPool({NUM_WORKERS})
    /\ InitState
    /\ InitFn
    /\ main \in {[pc |-> "list", i |-> 0, n |-> n] : n \in 0..MaxCalls}
    /\ stagelog = TRUE

NextOneoff ==
    \/ OneoffList
    \/ OneoffCall
    \/ OneoffReturn
    \/ OneoffComplete
    \/ \E j \in Calls : PipeStep(j)

SpecOneoff == InitOneoff /\ [][NextOneoff]_vars

\* The generic pool while nobody calls close.
NextNoClose ==
    \/ CtorSpawn
    \/ CtorCollect
    \/ CtorFill
    \/ \E w \in Workers : WorkerStep(w)
    \/ \E c \in Calls : RunStep(c)

SpecNoClose == Init /\ [][NextNoClose]_vars

----------------------------------------------------------------------------
\* Vocabulary of the properties.

\* The run call has taken a slot (manager.py:56) and not yet put it back (line 59).
Borrowed(c) == run[c].pc \in {"put", "wait", "giveback"}
InFlight == {c \in Calls : Borrowed(c)}
Holders(s) == {c \in Calls : Borrowed(c) /\ run[c].register = s}
Handling == {w \in Workers : worker[w].pc \in {"handle", "spawn"}}
Finished(c) == run[c].pc \in {"returned", "raised"}
FactoryFailed(w) == worker[w].pc \in {"report_err", "returned"}
Exited == {w \in Workers : worker[w].pc = "exited"}
SentinelsQueued == Len(SelectSeq(request_queue, LAMBDA it : it.register = None))

----------------------------------------------------------------------------
\* C1: once the pool is constructed, the slots idle in the slot pool plus the
\* slots borrowed by in-flight run calls are always exactly num, and no slot is
\* borrowed by two run calls at once, whatever run and close calls interleave.
C1_SlotsInCirculation ==
    ctor.pc = "done" =>
        /\ Len(response_queues) + Cardinality(InFlight) = num
        /\ \A s \in Slots : Cardinality(Holders(s)) <= 1

\* C2: at most num run calls are in flight and at most num handler invocations
\* execute at any time; a run call at the borrow step stays there while all num
\* slots are borrowed.
C2_AtMostNumInFlight ==
    /\ [](ctor.pc = "done" =>
            /\ Cardinality(InFlight) <= num
            /\ Cardinality(Handling) <= num)
    /\ [][\A c \in Calls :
            (run[c].pc = "get" /\ Cardinality(InFlight) = num) => run'[c].pc = "get"]_vars

\* C2 witness: every slot is borrowed and a further run call waits to borrow.
C2_Witness ==
    /\ ctor.pc = "done"
    /\ Cardinality(InFlight) = num
    /\ \E c \in Calls : run[c].pc = "get"

\* C3: with concurrent run callers and workers, every request is handled by at
\* most one worker, exactly once by the time its run call ends; the call returns
\* the handler's response for its own request or raises the handler's error for
\* its own request; and its slot is back in the pool before it ends.
C3_Correlation ==
    /\ \A c \in Calls :
        /\ handled[c] <= 1
        /\ Cardinality({w \in Workers : worker[w].request = c}) <= 1
        /\ run[c].pc = "returned" =>
              /\ handled[c] = 1
              /\ houtcome[c] = "response"
              /\ run[c].response = ResponseOf(c)
        /\ run[c].pc = "raised" =>
              /\ handled[c] = 1
              /\ houtcome[c] = "exception"
              /\ run[c].response = ErrorOf(c)
        /\ run[c].pc \in {"finish", "returned", "raised"} => run[c].register = None
    /\ ctor.pc = "done" => Len(response_queues) + Cardinality(InFlight) = num

\* C3 witness: two concurrent calls ended, one with a response and one with an error.
C3_Witness ==
    \E c1, c2 \in Calls :
        /\ run[c1].pc = "returned"
        /\ run[c2].pc = "raised"
        /\ Len(response_queues) = num

\* C7: the constructor returns only if every factory invocation succeeded, and
\* then the slot pool holds num empty slots; when a factory invocation fails it
\* raises the first error report it takes from the queue: the reports it took
\* before were successes, and every other error report is still in the queue.
C7_Construction ==
    /\ ctor.pc \in {"fill", "done"} =>
          \A w \in Workers : ~FactoryFailed(w) /\ fcalls[w] = 1
    /\ (ctor.pc = "done" /\ \A c \in Calls : run[c].pc = "get") =>
          /\ response_queues = [s \in 1..num |-> SlotRef(s)]
          /\ \A s \in Slots : slotq[s] = <<>>
    /\ ctor.pc # "raised_full"
    /\ ctor.pc = "raised" =>
          /\ ctor.err \in Workers
          /\ worker[ctor.err].pc = "returned"
          /\ \A w \in Workers \ {ctor.err} :
                worker[w].pc = "returned" =>
                    \E k \in 1..Len(response_queues) : response_queues[k] = ReportErr(w)
    /\ (\E w \in Workers : FactoryFailed(w)) => ctor.pc \notin {"fill", "done"}

\* C7 witness: two factory invocations failed and reported; one error was raised.
C7_Witness ==
    /\ ctor.pc = "raised"
    /\ \E w \in Workers \ {ctor.err} : worker[w].pc = "returned"

\* C8: each worker invokes the factory exactly once, and a worker is inside the
\* factory only while it holds the init lock, so no two invocations overlap.
C8_FactorySerialized ==
    /\ \A w \in Workers :
        /\ fcalls[w] = IF worker[w].pc \in {"unstarted", "lock"} THEN 0 ELSE 1
        /\ worker[w].pc \in {"factory", "report_err"} => init_lock = w
    /\ Cardinality({w \in Workers : worker[w].pc = "factory"}) <= 1
    /\ ctor.pc \in {"fill", "done"} => \A w \in Workers : fcalls[w] = 1

\* C8 witness: one worker is inside the factory while another waits for the lock.
C8_Witness ==
    \E w1, w2 \in Workers :
        /\ worker[w1].pc = "factory"
        /\ worker[w2].pc = "lock"

\* C9: when the handler raises, the worker deposits (error, False) in the slot of
\* that request, the run call of that request raises that error, and the worker
\* returns to its loop; a worker leaves the loop only by taking a sentinel.
C9_HandlerErrorKeepsWorker ==
    /\ [](/\ \A s \in Slots : \A k \in 1..Len(slotq[s]) :
                /\ slotq[s][k].ok = (slotq[s][k].response.kind = "response")
                /\ \A c \in Holders(s) :
                      slotq[s][k].response.req = c /\ houtcome[c] = slotq[s][k].response.kind
          /\ \A c \in Calls :
                (houtcome[c] = "exception" /\ Finished(c)) =>
                    run[c].pc = "raised" /\ run[c].response = ErrorOf(c)
          /\ Cardinality(Exited) + SentinelsQueued = closer.i)
    /\ [][\A w \in Workers :
            /\ worker[w].pc = "put_err" => worker'[w].pc \in {"put_err", "loop"}
            /\ (worker[w].pc = "put_err" /\ worker'[w].pc = "loop") =>
                  slotq'[worker[w].register] = <<[response |-> ErrorOf(worker[w].request),
                                                  ok |-> FALSE]>>]_vars

\* C9 witness: the only worker handles a request after the handler raised on an
\* earlier one, whose run call raised that error.
C9_Witness ==
    /\ num = 1
    /\ \E c1, c2 \in Calls :
        /\ c1 # c2
        /\ run[c1].pc = "raised"
        /\ houtcome[c1] = "exception"
        /\ worker[1].pc = "handle"
        /\ worker[1].request = c2

\* C10: close enqueues num sentinels without failing, whatever the state of the
\* pool (the part of the claim that a finite run refutes).
C10_CloseNeverFails ==
    closer.pc # "raised"

----------------------------------------------------------------------------
\* The server with every started _process_request thread scheduled until it
\* ends (the external tools terminate).
FairSpecServer == SpecServer /\ \A j \in Calls : WF_vars(PipeStep(j))

\* Positions in logs of the entries of run j with a message in msgs.
Positions(msgs, j) == {k \in 1..Len(logs) : logs[k].job = j /\ logs[k].msg \in msgs}
TerminalMsgs == {"run_job.process.success", "run_job.process.error"}
FailureMsgs == {"Invalid GCS path", "run_job.decode.failed", "run_job.demucs.failed",
                "run_job.align.failed", "run_job.encode_mp3.failed"}
Finalizing == {"log_error", "log_traceback", "mark_finished", "done"}

\* C4: finished_jobs never exceeds started_jobs, in every program that runs
\* _process_request (here: oneoff.main).
C4_FinishedAtMostStarted ==
    finished_jobs <= started_jobs

\* C5: when run_job returns for a job, started_jobs already counts the job and
\* the job's pipeline has not taken a step; finished_jobs is eventually
\* incremented for the job; logs holds one process.start entry of the job and,
\* after it, exactly one process.success or process.error entry of the job.
C5_SubmitLifecycle ==
    /\ [](/\ started_jobs = Cardinality({c \in Calls : houtcome[c] = "response"})
                            + Cardinality({w \in Workers : worker[w].pc = "spawn"})
          /\ \A c \in Calls :
                /\ Cardinality(Positions({"run_job.process.start"}, c))
                      = IF pipe[c].pc \in {"idle", "start"} THEN 0 ELSE 1
                /\ Cardinality(Positions(TerminalMsgs, c))
                      = IF pipe[c].pc \in {"log_traceback", "mark_finished", "done"}
                        THEN 1 ELSE 0
                /\ \A t \in Positions(TerminalMsgs, c) :
                      \E b \in Positions({"run_job.process.start"}, c) : b < t
                /\ pipe[c].finished = IF pipe[c].pc = "done" THEN 1 ELSE 0)
    /\ [][\A c \in Calls :
            (houtcome[c] = "none" /\ houtcome'[c] = "response") =>
                /\ pipe'[c].pc = "start"
                /\ started_jobs' = started_jobs
                /\ started_jobs >= 1]_vars
    /\ \A c \in Calls : (houtcome[c] = "response") ~> (pipe[c].finished = 1)

\* C5 witness: run_job returned for two jobs and neither pipeline has finished;
\* one of them has logged its start, the other has not run yet.
C5_Witness ==
    \E c1, c2 \in Calls :
        /\ c1 # c2
        /\ houtcome[c1] = "response" /\ houtcome[c2] = "response"
        /\ started_jobs = 2 /\ finished_jobs = 0
        /\ pipe[c1].pc = "start"
        /\ pipe[c2].pc = "decode"

\* Where a run may go in one step: to the next stage when the stage returned,
\* to the except clause when it raised, and through the finalization.
C6_Allowed(pc, pc2, raised2) ==
    \/ pc = "idle" /\ pc2 = "start"
    \/ pc = "start" /\ pc2 = "client"
    \/ \E i \in 1..Len(StageOrder) :
          /\ pc = StageOrder[i]
          /\ \/ /\ ~raised2
                /\ pc2 = IF i < Len(StageOrder) THEN StageOrder[i + 1] ELSE "log_success"
             \/ raised2 /\ pc2 = "log_error"
    \/ pc = "log_success" /\ pc2 = "mark_finished" /\ ~raised2
    \/ pc = "log_error" /\ pc2 = "log_traceback" /\ raised2
    \/ pc = "log_traceback" /\ pc2 = "mark_finished" /\ raised2
    \/ pc = "mark_finished" /\ pc2 = "done"

\* C6: a run goes through the stages in their order up to the first stage that
\* raises, runs no stage after it and none twice, uploads only after every
\* earlier stage succeeded, and calls mark_finished exactly once at its end.
C6_StagePrefix ==
    /\ [](\A j \in Calls :
            /\ pipe[j].raised => pipe[j].pc \in Finalizing
            /\ pipe[j].finished = IF pipe[j].pc = "done" THEN 1 ELSE 0
            /\ \A m \in ProcessMsgs \cup StageMsgs : Cardinality(Positions({m}, j)) <= 1
            /\ Positions({"run_job.upload.start"}, j) # {} =>
                  /\ Positions({"run_job.download.done"}, j) # {}
                  /\ Positions({"run_job.decode.done"}, j) # {}
                  /\ Positions({"run_job.demucs.done"}, j) # {}
                  /\ Positions(FailureMsgs, j) = {}
            /\ Positions({"run_job.process.success"}, j) # {} =>
                  /\ Positions({"run_job.upload.done"}, j) # {}
                  /\ Positions({"run_job.process.error"}, j) = {}
            /\ Positions({"run_job.process.error"}, j) # {} =>
                  Positions({"run_job.upload.done"}, j) = {})
    /\ [][/\ \A j \in Calls :
                pipe'[j] # pipe[j] =>
                    /\ C6_Allowed(pipe[j].pc, pipe'[j].pc, pipe'[j].raised)
                    /\ pipe'[j].finished =
                          pipe[j].finished + IF pipe[j].pc = "mark_finished" THEN 1 ELSE 0
          /\ finished_jobs' = finished_jobs
                + Cardinality({j \in Calls : pipe[j].pc = "mark_finished" /\ pipe'[j].pc = "done"})
         ]_vars

\* C6 witness: a run whose decode stage failed has finalized, and a later run
\* has succeeded.
C6_Witness ==
    \E j1, j2 \in Calls :
        /\ pipe[j1].pc = "done" /\ pipe[j1].raised
        /\ Positions({"run_job.decode.failed"}, j1) # {}
        /\ pipe[j2].pc = "done" /\ ~pipe[j2].raised
        /\ finished_jobs = 2

----------------------------------------------------------------------------
\* The generic pool when close is called while run calls are in flight and no
\* run call starts afterwards: a run call borrows its slot (manager.py:56) only
\* before close is called.
RunStepBeforeClose(c) ==
    \/ (closer.pc = "idle" /\ RunGet(c))
    \/ RunPut(c)
    \/ RunWait(c)
    \/ RunGiveBack(c)
    \/ RunFinish(c)

NextCloseInFlight ==
    \/ CtorSpawn
    \/ CtorCollect
    \/ CtorFill
    \/ \E w \in Workers : WorkerStep(w)
    \/ \E c \in Calls : RunStepBeforeClose(c)
    \/ ClosePut

SpecCloseInFlight == Init /\ [][NextCloseInFlight]_vars

\* C11: a run call that had borrowed its slot when close was called does not
\* fail because of the close (it raises only the handler's error for its own
\* request) and is never left waiting for a result that no worker will deposit
\* (the part of the claim that a finite run refutes).
C11_InFlightSurviveClose ==
    \A c \in Calls :
        /\ run[c].pc = "raised" => run[c].response = ErrorOf(c)
        /\ ~(/\ run[c].pc = "wait"
             /\ slotq[run[c].register] = <<>>
             /\ Exited = Workers)

----------------------------------------------------------------------------
\* The generic pool while nobody calls close, with every thread scheduled as long
\* as it can take a step: the constructor, each init_runner thread (the factory
\* and the handler terminate, by returning or by raising) and each run caller.
FairSpecNoClose ==
    /\ SpecNoClose
    /\ WF_vars(CtorSpawn \/ CtorCollect \/ CtorFill)
    /\ \A w \in 1..MaxNum : WF_vars(w \in Workers /\ WorkerStep(w))
    /\ \A c \in Calls : WF_vars(RunStep(c))

\* A request that is in the request queue.
Enqueued(c) == \E k \in 1..Len(request_queue) : request_queue[k].request = c

\* C12: without close and with a terminating handler, under fair scheduling
\* every enqueued request is eventually dequeued by a worker, and every run call
\* on the constructed pool eventually returns the handler's response or raises
\* the handler's error, however many callers compete for the slots.
C12_NoCloseProgress ==
    \A c \in Calls :
        /\ Enqueued(c) ~> (handled[c] = 1 /\ ~Enqueued(c))
        /\ (ctor.pc = "done") ~> (Finished(c) /\ run[c].response \in {ResponseOf(c), ErrorOf(c)})

\* C12 witness: more callers than workers, and every call has ended after its
\* request was dequeued and handled.
C12_Witness ==
    /\ num < MaxCalls
    /\ \A c \in Calls : Finished(c) /\ handled[c] = 1

----------------------------------------------------------------------------
\* run_job.py:53-59 and 334-335: get_state() returns _STATE.state(), a dict built
\* under the lock from a copy of logs and the two counters.
GetState ==
    /\ snapshot' = [logs |-> logs,
                    started_jobs |-> started_jobs,
                    finished_jobs |-> finished_jobs]
    /\ UNCHANGED <<poolVars, logs, started_jobs, finished_jobs, pipe, main, stagelog, fnVars>>

\* The server once MaxCalls submissions have been acknowledged (each run call
\* returned Response(), server.py:85-95) and before any of their detached
\* threads has taken a step: the pool is idle and every thread is about to run
\* _process_request (run_job.py:329-330).
InitSubmitted ==
    /\ num = NUM_WORKERS
    /\ ctor = [pc |-> "done", i |-> 0, err |-> 0]
    /\ init_lock = 0
    /\ response_queues = [s \in 1..NUM_WORKERS |-> SlotRef(s)]
    /\ request_queue = <<>>
    /\ slotq = [s \in 1..NUM_WORKERS |-> <<>>]
    /\ worker = [w \in 1..NUM_WORKERS |-> IdleWorker("loop")]
    /\ fcalls = [w \in 1..NUM_WORKERS |-> 1]
    /\ run = [c \in Calls |-> [pc |-> "returned", register |-> None,
                               response |-> EmptyResponse, ok |-> TRUE]]
    /\ handled = [c \in Calls |-> 1]
    /\ houtcome = [c \in Calls |-> "response"]
    /\ closer = [pc |-> "idle", i |-> 0]
    /\ logs = <<>>
    /\ started_jobs = MaxCalls
    /\ finished_jobs = 0
    /\ pipe = [j \in Calls |-> [IdlePipe EXCEPT !.pc = "start"]]
    /\ snapshot = [logs |-> <<>>, started_jobs |-> 0, finished_jobs |-> 0]
    /\ main = [pc |-> "off", i |-> 0, n |-> 0]
    /\ stagelog = FALSE
    /\ InitFn

\* The submitted jobs running concurrently, and a reader that calls get_state at
\* any time.
NextJobsRead ==
    \/ \E j \in Calls : PipeStep(j)
    \/ GetState

SpecJobsRead == InitSubmitted /\ [][NextJobsRead]_vars

\* a is an initial segment of b.
IsPrefix(a, b) == Len(a) <= Len(b) /\ SubSeq(b, 1, Len(a)) = a

\* C13: the log is append-only under any interleaving of the log calls of
\* concurrent jobs: every step leaves the old logs as a prefix of the new logs,
\* the logs of a snapshot are a prefix of the logs of the next snapshot and of
\* the current logs, and a step that appends to the logs leaves the snapshot
\* already returned as it was.
C13_LogAppendOnly ==
    /\ [][IsPrefix(logs, logs')]_vars
    /\ [][IsPrefix(snapshot.logs, snapshot'.logs)]_vars
    /\ [](IsPrefix(snapshot.logs, logs))
    /\ [][logs' # logs => snapshot' = snapshot]_vars

\* C13 witness: a snapshot taken between the log calls of two concurrent jobs
\* holds entries of both, and the logs have grown since it was returned.
C13_Witness ==
    /\ \E k1, k2 \in 1..Len(snapshot.logs) : snapshot.logs[k1].job # snapshot.logs[k2].job
    /\ Len(snapshot.logs) < Len(logs)
    /\ \E j \in Calls : pipe[j].pc \notin {"idle", "start", "done"}

----------------------------------------------------------------------------
\* C14: on the server no run call raises: every call that ends returns the empty
\* Response, also when the pipeline of its request fails; the failure of a
\* pipeline shows as its run_job.process.error entry in the logs and in
\* finished_jobs, and a step of a pipeline changes nothing of the pool.
C14_FailureNotPropagated ==
    /\ [](\A c \in Calls :
            /\ run[c].pc # "raised"
            /\ houtcome[c] \in {"none", "response"}
            /\ Finished(c) => (run[c].response = EmptyResponse /\ run[c].ok)
            /\ (pipe[c].raised /\ pipe[c].pc \in {"log_traceback", "mark_finished", "done"}) =>
                  Positions({"run_job.process.error"}, c) # {}
            /\ pipe[c].pc = "done" => pipe[c].finished = 1)
    /\ [](finished_jobs = Cardinality({c \in Calls : pipe[c].pc = "done"}))
    /\ [][\A c \in Calls :
            (pipe[c].pc # "idle" /\ pipe'[c] # pipe[c]) => UNCHANGED poolVars]_vars

\* C14 witness: a pipeline failed and ended, its failure is logged and counted,
\* and the run call of its request returned the empty Response.
C14_Witness ==
    \E c \in Calls :
        /\ pipe[c].pc = "done" /\ pipe[c].raised
        /\ Positions({"run_job.process.error"}, c) # {}
        /\ finished_jobs >= 1
        /\ run[c].pc = "returned" /\ run[c].response = EmptyResponse

----------------------------------------------------------------------------
\* _parse_gcs_path (run_job.py:87-102).  A str is a sequence of characters.
Chars == {"g", "s", ":", "/", "x"}
Scheme == <<"g", "s", ":", "/", "/">>
Strings(n) == UNION {[1..k -> Chars] : k \in 0..n}

\* str.startswith(p).
StartsWith(s, p) == Len(s) >= Len(p) /\ SubSeq(s, 1, Len(p)) = p

\* str.find(sep): index of the first occurrence of sep in s, 0 when there is none.
Find(s, sep) ==
    LET hits == {i \in 1..(Len(s) - Len(sep) + 1) : SubSeq(s, i, i + Len(sep) - 1) = sep}
    IN IF hits = {} THEN 0 ELSE CHOOSE i \in hits : \A h \in hits : i <= h

\* str.split(sep, 1): the list of one or two parts.
Split1(s, sep) ==
    LET i == Find(s, sep)
    IN IF i = 0 THEN <<s>>
       ELSE <<SubSeq(s, 1, i - 1), SubSeq(s, i + Len(sep), Len(s))>>

ValueError == [kind |-> "ValueError", bucket_name |-> <<>>, blob_path |-> <<>>]

\* ParseGcsPath with a fault: an empty blob path is accepted.
ParseGcsPath_EmptyBlob(gcs) ==
    IF ~StartsWith(gcs, Scheme)
    THEN ValueError
    ELSE LET path == Split1(gcs, Scheme)[2]
             parts == Split1(path, <<"/">>)
             bucket_name == parts[1]
             blob_parts == Tail(parts)
             blob_path == IF blob_parts # <<>> THEN blob_parts[1] ELSE <<>>
         IN IF bucket_name = <<>>
            THEN ValueError
            ELSE [kind |-> "ok", bucket_name |-> bucket_name, blob_path |-> blob_path]

\* run_job.py:88-102: what _parse_gcs_path(gcs) returns or raises.
ParseGcsPath(gcs) ==
    IF ~StartsWith(gcs, Scheme)
    THEN ValueError
    ELSE LET path == Split1(gcs, Scheme)[2]
             parts == Split1(path, <<"/">>)
             bucket_name == parts[1]
             blob_parts == Tail(parts)
             blob_path == IF blob_parts # <<>> THEN blob_parts[1] ELSE <<>>
         IN IF bucket_name = <<>> \/ blob_path = <<>>
            THEN ValueError
            ELSE [kind |-> "ok", bucket_name |-> bucket_name, blob_path |-> blob_path]

\* One call _parse_gcs_path(gcs_path); both raise sites log the message first
\* (run_job.py:89-91, 98-100).
ParseCall ==
    /\ parsed.kind = "none"
    /\ parsed' = ParseGcsPath(gcs_path)
    /\ IF parsed'.kind = "ValueError"
       THEN Log(<<"Invalid GCS path">>, None)
       ELSE UNCHANGED logs
    /\ UNCHANGED <<poolVars, started_jobs, finished_jobs, pipe, main, stagelog, snapshot,
                   gcs_path, flattenVars>>

\* _parse_gcs_path applied to every string of at most MaxLen characters and to
\* the scheme followed by every such string.
InitParse ==
    /\ InitPool({NUM_WORKERS})
    /\ InitState
    /\ main = [pc |-> "off", i |-> 0, n |-> 0]
    /\ stagelog = TRUE
    /\ gcs_path \in Strings(MaxLen) \cup {Scheme \o r : r \in Strings(MaxLen)}
    /\ parsed = NotParsed
    /\ InitNoFlatten

NextParse == ParseCall

SpecParse == InitParse /\ [][NextParse]_vars

\* The position of the "/" that ends the container of a locator s: s starts
\* with the scheme, a non-empty container without "/" follows, then this "/",
\* then a non-empty object path.  The set is empty for any other string.
ContainerEnds(s) ==
    {k \in 7..(Len(s) - 1) :
        /\ \A i \in 1..5 : s[i] = Scheme[i]
        /\ s[k] = "/"
        /\ \A i \in 6..(k - 1) : s[i] # "/"}

\* C15: a string made of the scheme, a non-empty container, the first "/" after
\* it and a non-empty object path parses to exactly (container, object path);
\* every other string fails with ValueError, logged as "Invalid GCS path".
C15_LocatorParsing ==
    parsed.kind # "none" =>
        IF ContainerEnds(gcs_path) # {}
        THEN \E k \in ContainerEnds(gcs_path) :
                /\ parsed = [kind |-> "ok",
                             bucket_name |-> SubSeq(gcs_path, 6, k - 1),
                             blob_path |-> SubSeq(gcs_path, k + 1, Len(gcs_path))]
                /\ logs = <<>>
        ELSE /\ parsed = ValueError
             /\ logs = <<Entry("Invalid GCS path", None)>>

\* C15 witness: a locator whose object path itself contains "/" was parsed, the
\* whole of the object path being kept.
C15_Witness ==
    /\ parsed.kind = "ok"
    /\ \E i \in 1..Len(parsed.blob_path) : parsed.blob_path[i] = "/"
    /\ Scheme \o parsed.bucket_name \o <<"/">> \o parsed.blob_path = gcs_path

----------------------------------------------------------------------------
\* C16: the push of (request, slot) in run never fails: a run call at the push
\* step either stays there (blocked on a full queue) or has pushed and waits for
\* its result, in every state, those after close put its sentinels included.
C16_PushBlocksNeverFails ==
    [][\A c \in Calls : run[c].pc = "put" => run'[c].pc \in {"put", "wait"}]_vars

----------------------------------------------------------------------------
\* The _process_request threads that have been started and have not ended.
Running == {j \in Calls : pipe[j].pc \notin {"idle", "done"}}

\* C17: on the server the pool of NUM_WORKERS = 1 worker does not bound the
\* pipelines that execute at the same time: started_jobs - finished_jobs counts
\* the running pipelines (and the job a worker has counted and is about to
\* start), a worker never holds a started pipeline, and a running pipeline can
\* take its next step whatever the pool does.
C17_PoolDoesNotBoundJobs ==
    /\ num = NUM_WORKERS
    /\ started_jobs - finished_jobs =
          Cardinality(Running) + Cardinality({w \in Workers : worker[w].pc = "spawn"})
    /\ \A w \in Workers : worker[w].pc = "spawn" => pipe[worker[w].request].pc = "idle"
    /\ \A j \in Running : ENABLED PipeStep(j)

\* C17 witness: with one worker, MaxCalls > 1 pipelines submitted through run
\* execute at the same time while the worker is idle in its loop, every run call
\* having returned.
C17_Witness ==
    /\ num = 1
    /\ MaxCalls > num
    /\ Cardinality(Running) = MaxCalls
    /\ started_jobs - finished_jobs = MaxCalls
    /\ worker[1].pc = "loop"
    /\ request_queue = <<>>
    /\ \A c \in Calls : run[c].pc = "returned"

----------------------------------------------------------------------------
\* The flattening of _run_demucs (run_job.py:224-235) on a tree of the shape
\* output_dir/model/track/file: output_dir.dirs maps each model directory to its
\* track directories and each of those to the set of its file names;
\* output_dir.files are the names of the files directly in output_dir.  The
\* names in output_dir are those of its model directories and of its files.
ModelNames == {"htdemucs", "mdx"}
TrackNames == 1..MaxTracks
StemNames == {"htdemucs", "vocals.wav"}
Trees ==
    LET TrackMaps == UNION {[T -> SUBSET StemNames] : T \in SUBSET TrackNames}
    IN UNION {[M -> TrackMaps] : M \in SUBSET ModelNames}

\* f without its entry x.
Without(f, x) == [y \in DOMAIN f \ {x} |-> f[y]]

\* run_job.py:224: model_dirs = [p for p in output_dir.iterdir() if p.is_dir()].
ListModelDirs ==
    /\ flat.pc = "list"
    /\ flat' = [flat EXCEPT !.pc = "models", !.model_dirs = DOMAIN output_dir.dirs]
    /\ UNCHANGED <<poolVars, logs, started_jobs, finished_jobs, pipe, main, stagelog,
                   snapshot, parseVars, output_dir, original>>

\* run_job.py:225-226: the next model_dir of the list (the order iterdir gave),
\* and the listing of its entries, all of them directories.
NextModelDir ==
    /\ flat.pc = "models"
    /\ \E m \in flat.model_dirs :
        flat' = [flat EXCEPT !.pc = "tracks", !.model_dirs = @ \ {m}, !.model_dir = m,
                             !.tracks = DOMAIN output_dir.dirs[m]]
    /\ UNCHANGED <<poolVars, logs, started_jobs, finished_jobs, pipe, main, stagelog,
                   snapshot, parseVars, output_dir, original>>

\* run_job.py:235: return output_dir, the list being exhausted.
FlattenReturn ==
    /\ flat.pc = "models"
    /\ flat.model_dirs = {}
    /\ flat' = [flat EXCEPT !.pc = "done"]
    /\ UNCHANGED <<poolVars, logs, started_jobs, finished_jobs, pipe, main, stagelog,
                   snapshot, parseVars, output_dir, original>>

\* run_job.py:226-229: the next track_dir (a directory) and the listing of its
\* entries, all of them files.
NextTrackDir ==
    /\ flat.pc = "tracks"
    /\ \E t \in flat.tracks :
        flat' = [flat EXCEPT !.pc = "stems", !.tracks = @ \ {t}, !.track_dir = t,
                             !.stems = output_dir.dirs[flat.model_dir][t]]
    /\ UNCHANGED <<poolVars, logs, started_jobs, finished_jobs, pipe, main, stagelog,
                   snapshot, parseVars, output_dir, original>>

\* RmtreeModelDir with a fault: the model directory is left in place.
RmtreeModelDir_Keep ==
    /\ flat.pc = "tracks"
    /\ flat.tracks = {}
    /\ flat' = [flat EXCEPT !.pc = "models"]
    /\ UNCHANGED <<poolVars, logs, started_jobs, finished_jobs, pipe, main, stagelog,
                   snapshot, parseVars, output_dir, original>>

\* run_job.py:233: shutil.rmtree(model_dir), its entries being exhausted.
RmtreeModelDir ==
    /\ flat.pc = "tracks"
    /\ flat.tracks = {}
    /\ output_dir' = [output_dir EXCEPT !.dirs = Without(@, flat.model_dir)]
    /\ flat' = [flat EXCEPT !.pc = "models"]
    /\ UNCHANGED <<poolVars, logs, started_jobs, finished_jobs, pipe, main, stagelog,
                   snapshot, parseVars, original>>

\* run_job.py:229-231: stem_file.replace(output_dir / stem_file.name) for the next
\* file of track_dir.  os.replace overwrites a file of that name and raises
\* (IsADirectoryError) when output_dir holds a directory of that name.
ReplaceStem ==
    /\ flat.pc = "stems"
    /\ \E f \in flat.stems :
        IF f \in DOMAIN output_dir.dirs
        THEN /\ flat' = [flat EXCEPT !.pc = "raised"]
             /\ UNCHANGED output_dir
        ELSE /\ flat' = [flat EXCEPT !.stems = @ \ {f}]
             /\ output_dir' = [output_dir EXCEPT
                    !.files = @ \cup {f},
                    !.dirs[flat.model_dir][flat.track_dir] = @ \ {f}]
    /\ UNCHANGED <<poolVars, logs, started_jobs, finished_jobs, pipe, main, stagelog,
                   snapshot, parseVars, original>>

\* run_job.py:232: shutil.rmtree(track_dir), its entries being exhausted.
RmtreeTrackDir ==
    /\ flat.pc = "stems"
    /\ flat.stems = {}
    /\ output_dir' = [output_dir EXCEPT
            !.dirs[flat.model_dir] = Without(@, flat.track_dir)]
    /\ flat' = [flat EXCEPT !.pc = "tracks"]
    /\ UNCHANGED <<poolVars, logs, started_jobs, finished_jobs, pipe, main, stagelog,
                   snapshot, parseVars, original>>

\* The flattening applied to every tree of that shape with the model directories
\* of ModelNames, at most MaxTracks track directories in each and the file names
\* of StemNames.
InitFlatten ==
    /\ InitPool({NUM_WORKERS})
    /\ InitState
    /\ main = [pc |-> "off", i |-> 0, n |-> 0]
    /\ stagelog = TRUE
    /\ InitNoParse
    /\ original \in Trees
    /\ output_dir = [dirs |-> original, files |-> {}]
    /\ flat = FlatAt("list")

NextFlatten ==
    \/ ListModelDirs
    \/ NextModelDir
    \/ FlattenReturn
    \/ NextTrackDir
    \/ RmtreeModelDir
    \/ ReplaceStem
    \/ RmtreeTrackDir

SpecFlatten == InitFlatten /\ [][NextFlatten]_vars

\* The file names that occur in a tree.
StemsOf(tree) == UNION {UNION {tree[m][t] : t \in DOMAIN tree[m]} : m \in DOMAIN tree}

NoNameClash(tree) == StemsOf(tree) \cap DOMAIN tree = {}

----------------------------------------------------------------------------
\* C19: while close is not called, the request queue holds at most as many
\* items as there are borrowed slots, hence at most num, the slot pool holds at
\* most num slots, and neither put_nowait of run fails: no run call raises
\* queue.Full, at the push or when it returns its slot.
C19_NoFullWithoutClose ==
    /\ [](/\ Len(request_queue) <= Cardinality(InFlight)
          /\ Cardinality(InFlight) <= num
          /\ Len(response_queues) <= num
          /\ \A c \in Calls : run[c].response # QueueFull)
    /\ [][\A c \in Calls :
            /\ (run[c].pc = "put" /\ run'[c].pc # "put") =>
                  /\ run'[c].pc = "wait"
                  /\ request_queue' = Append(request_queue, Item(c, run[c].register))
            /\ (run[c].pc = "giveback" /\ run'[c].pc # "giveback") =>
                  /\ run'[c].pc = "finish"
                  /\ response_queues' = Append(response_queues, SlotRef(run[c].register))]_vars

\* C19 witness: the request queue is full, with num > 1 calls having pushed and
\* no worker having dequeued yet, while a further caller waits for a slot.
C19_Witness ==
    /\ num > 1
    /\ Len(request_queue) = num
    /\ Cardinality({c \in Calls : run[c].pc = "wait"}) = num
    /\ closer.pc = "idle"

----------------------------------------------------------------------------
\* The number of outcome entries (run_job.process.success or .error) in a log.
TerminalCount(l) == Cardinality({k \in 1..Len(l) : l[k].msg \in TerminalMsgs})

\* C20: a job's outcome entry is appended before the job is counted as
\* finished: in the state and in every snapshot, under any interleaving of
\* concurrent pipelines, the logs hold at least finished_jobs outcome entries,
\* and every job counted as finished has its own outcome entry, exactly one.
C20_OutcomeBeforeFinished ==
    /\ TerminalCount(logs) >= finished_jobs
    /\ TerminalCount(snapshot.logs) >= snapshot.finished_jobs
    /\ finished_jobs = Cardinality({j \in Calls : pipe[j].finished = 1})
    /\ \A j \in Calls :
          /\ pipe[j].finished \in {0, 1}
          /\ pipe[j].finished = 1 => Cardinality(Positions(TerminalMsgs, j)) = 1

\* C20 witness: a snapshot that counts one finished job and already holds the
\* outcome entries of two, a success and an error.
C20_Witness ==
    /\ snapshot.finished_jobs = 1
    /\ \E k1, k2 \in 1..Len(snapshot.logs) :
          /\ snapshot.logs[k1].msg = "run_job.process.success"
          /\ snapshot.logs[k2].msg = "run_job.process.error"
====
